---- MODULE Spec2Model ----
(***************************************************************************)
(* A model of fritzconnection/lib/fritztools.py: the unit formatter        *)
(* byte_formatter and the ArgumentNamespace adapter with its name          *)
(* normalisation rewrite_argument.                                         *)
(*                                                                         *)
(* Python strings are modelled as sequences of one-character strings, so   *)
(* that the character scan of rewrite_argument is computed, not assumed.   *)
(* Python integers are unbounded; byte_formatter's argument is modelled as *)
(* a sign and a sequence of base-1000 limbs (most significant first).      *)
(*                                                                         *)
(* Four specifications share the variables:                               *)
(*   SpecRewrite  applies rewrite_argument, repeatedly, to drawn names;    *)
(*   SpecFormat   applies byte_formatter to drawn integers;                *)
(*   Spec         constructs an ArgumentNamespace and operates on it;      *)
(*   SpecWlan     constructs a FritzWLAN or FritzGuestWLAN of                *)
(*                fritzconnection/lib/fritzwlan.py and reads                *)
(*                total_host_number.                                       *)
(***************************************************************************)
EXTENDS Integers, Sequences, FiniteSets, TLC

VARIABLES
    arg,          \* rewrite_argument: the `name` argument of the latest call
    rw_suppress,  \* rewrite_argument: the `suppress_new` argument
    res,          \* rewrite_argument: the value returned by the latest call
    n,            \* rewrite_argument: number of calls made so far
    value,        \* byte_formatter: the argument, [neg, limbs]
    fmt,          \* byte_formatter: the returned pair, or the idle record
    ns,           \* ArgumentNamespace: the instance __dict__ (key -> value)
    status,       \* ArgumentNamespace: "unbuilt", "live" or "failed"
    last,         \* ArgumentNamespace: the latest call, its arguments and outcome
    written,      \* ArgumentNamespace: key -> value last assigned after construction
    fc_services,  \* fc.services: the numbers n with 'WLANConfiguration<n>' registered
    remote,       \* the device: its answer to GetTotalAssociations per service number
    service,      \* FritzWLAN: self.service
    wpc,          \* FritzWLAN: the position in the constructor or property running
    loop_n,       \* FritzWLAN: the loop variable of itertools.count(1)
    total,        \* total_host_number: total
    saved_service, \* total_host_number: _service
    returned_total \* total_host_number: the value returned

vars == <<arg, rw_suppress, res, n, value, fmt, ns, status, last, written,
          fc_services, remote, service, wpc, loop_n, total, saved_service, returned_total>>
rwVars == <<arg, rw_suppress, res, n>>
fmtVars == <<value, fmt>>
nsVars == <<ns, status, last, written>>
wlanVars == <<fc_services, remote, service, wpc, loop_n, total, saved_service, returned_total>>

(***************************************************************************)
(* Bounds of the model.                                                    *)
(***************************************************************************)
MaxTokens == 3    \* a drawn name is a concatenation of at most this many tokens
MaxCalls == 2     \* rewrite_argument is applied at most this many times in a row
MaxLimbs == 7     \* a drawn integer has at most this many base-1000 limbs
MaxSource == 2    \* a source dictionary has at most this many entries
MaxUpd == 2       \* the positional argument of update() has at most this many entries
MaxService == 3   \* the device knows service numbers up to this one

(***************************************************************************)
(* Characters and strings.                                                 *)
(***************************************************************************)
UpperChars == {"A", "B", "K", "N"}

\* str.isupper() of a one-character string
isupper(c) == c \in UpperChars

\* str.islower() of a one-character string
islower(c) == c \in {"a", "b", "c", "d", "e", "k", "n", "p", "s", "t", "u", "w", "y"}

\* str.isdigit() of a one-character string
isdigit(c) == c \in {"1"}

\* str.lower() of a one-character string: letters change, all else is kept
lower(c) ==
    CASE c = "A" -> "a"
      [] c = "B" -> "b"
      [] c = "K" -> "k"
      [] c = "N" -> "n"
      [] OTHER -> c

\* str.startswith
startswith(s, prefix) ==
    /\ Len(s) >= Len(prefix)
    /\ SubSeq(s, 1, Len(prefix)) = prefix

NEW_ == <<"n", "e", "w", "_">>

(***************************************************************************)
(* rewrite_argument: the character scan, then the removal of "new_".       *)
(***************************************************************************)
\* the condition under which the scan puts "_" before name[i] (1-based)
boundary_before(name, i) ==
    i > 1 /\ isupper(name[i]) /\ ~isupper(name[i - 1])

RECURSIVE scan_chars(_, _)
\* the list `chars` built from position i on
scan_chars(name, i) ==
    IF i > Len(name) THEN <<>>
    ELSE (IF boundary_before(name, i) THEN <<"_">> ELSE <<>>)
         \o <<lower(name[i])>>
         \o scan_chars(name, i + 1)

rewrite_argument(name, suppress) ==
    LET result == scan_chars(name, 1)
    IN  IF suppress /\ startswith(result, NEW_)
        THEN SubSeq(result, Len(NEW_) + 1, Len(result))
        ELSE result

(***************************************************************************)
(* The names rewrite_argument is applied to: concatenations of tokens.     *)
(***************************************************************************)
Tokens ==
    { <<"N", "e", "w">>, <<"n", "e", "w">>, <<"_">>, <<"A">>,
      <<"B", "c">>, <<"b">>, <<"1">> }

RECURSIVE Concat(_)
Concat(toks) ==
    IF toks = <<>> THEN <<>> ELSE Head(toks) \o Concat(Tail(toks))

Names ==
    { Concat(toks) : toks \in UNION { [1..k -> Tokens] : k \in 0..MaxTokens } }

\* one call of rewrite_argument; every call after the first is given the
\* previous call's result
Rewrite ==
    /\ n < MaxCalls
    /\ arg' = IF n = 0 THEN arg ELSE res
    /\ res' = rewrite_argument(arg', rw_suppress)
    /\ n' = n + 1
    /\ UNCHANGED rw_suppress
    /\ UNCHANGED <<fmtVars, nsVars, wlanVars>>

RewriteNext == Rewrite

(***************************************************************************)
(* byte_formatter.                                                         *)
(*                                                                         *)
(* An integer is [neg, limbs]: limbs are its base-1000 digits, most        *)
(* significant first, without leading zeros; <<>> is 0.  The returned      *)
(* number value / 1000 ** log is kept as the exact quotient                *)
(* [mant, exp] = mant / 1000^exp (the rounding of the float division is    *)
(* not modelled; the magnitude comparisons below do not depend on it).     *)
(***************************************************************************)
Base == 1000

dim == <<"B", "KB", "MB", "GB", "TB">>

LimbVals == {0, 1, 997, Base - 1}

Magnitudes ==
    { m \in UNION { [1..k -> LimbVals] : k \in 0..MaxLimbs } :
        m # <<>> => m[1] # 0 }

Min(a, b) == IF a <= b THEN a ELSE b

\* abs(value) < 1, for an integer
below_one(limbs) == limbs = <<>>

\* math.log10 works in IEEE-754 binary64.  For 10^15 - 1 and 10^15 - 2 the
\* nearest double to the logarithm is 15.0 itself (the doubles below 15 are
\* 1.8e-15 apart, the logarithms are less than 0.9e-15 below 15), so the
\* quotient by 3 is 5.0; from 10^15 - 3 down the result is below 15.0.  At the
\* lower powers of 1000 the doubles are dense enough for every integer.
log10_rounds_to_next_power(limbs) ==
    /\ Len(limbs) = 5
    /\ \A i \in 1..4 : limbs[i] = Base - 1
    /\ limbs[5] >= Base - 2

\* int(math.log10(value) / 3) for value >= 1.  With six limbs or more the
\* quotient is at least 5 and min() below takes len(dim) whatever the rounding.
int_log10_div3(limbs) ==
    IF log10_rounds_to_next_power(limbs) THEN Len(limbs) ELSE Len(limbs) - 1

\* dim[log], or 'PB' on IndexError (log is 0-based)
dimension_of(log) ==
    IF log + 1 \in DOMAIN dim THEN dim[log + 1] ELSE "PB"

byte_formatter(v) ==
    LET limbs == v.limbs   \* value = abs(value)
        log == IF below_one(limbs) THEN 0
               ELSE Min(int_log10_div3(limbs), Len(dim))
        num == IF below_one(limbs) THEN [mant |-> <<>>, exp |-> 0]
               ELSE [mant |-> limbs, exp |-> log]
    IN  [called |-> TRUE, num |-> num, dimension |-> dimension_of(log)]

FormatIdleResult == [called |-> FALSE, num |-> [mant |-> <<>>, exp |-> 0], dimension |-> ""]

\* one call of byte_formatter
Format ==
    /\ ~fmt.called
    /\ fmt' = byte_formatter(value)
    /\ UNCHANGED value
    /\ UNCHANGED <<rwVars, nsVars, wlanVars>>

FormatNext == Format

(***************************************************************************)
(* ArgumentNamespace.                                                      *)
(*                                                                         *)
(* A dict is a function from keys (strings) to values.  `source` is a      *)
(* sequence of <<key, value>> pairs with distinct keys: its order is the   *)
(* dict's iteration order, which __init__ depends on.  A call's result is  *)
(* [outcome, ret]: outcome is "return" or the name of the exception        *)
(* raised.  The operations are the functions of the class body, applied   *)
(* to the instance; keys range over plain names and names of methods.      *)
(***************************************************************************)
K_a == <<"a">>
K_new_a == <<"n", "e", "w", "_", "a">>
K_get == <<"g", "e", "t">>
K_keys == <<"k", "e", "y", "s">>
K_values == <<"v", "a", "l", "u", "e", "s">>
K_items == <<"i", "t", "e", "m", "s">>
K_update == <<"u", "p", "d", "a", "t", "e">>

S_NewA == <<"N", "e", "w", "A">>
S_A == <<"A">>
S_Keys == <<"K", "e", "y", "s">>

Values == {"v1", "v2"}
Defaults == {"None", "fallback"}

\* the keys the operations are called with
OpKeys == {K_a, K_keys, K_update}
\* the keys of the dicts handed to update()
UpdKeys == {K_a, K_update}
\* the keys of **kwargs handed to update()
KwKeys == {K_a}
\* the keys of a source dict, and the names of an explicit mapping
SourceKeys == {S_NewA, S_A, S_Keys}
MapNames == {K_a, K_keys}

EmptyDict == [k \in {} |-> "None"]

DictsOver(keys, limit) ==
    UNION { [S -> Values] : S \in { T \in SUBSET keys : Cardinality(T) <= limit } }

Sources ==
    { s \in UNION { [1..k -> SourceKeys \X Values] : k \in 0..MaxSource } :
        \A i, j \in DOMAIN s : i # j => s[i][1] # s[j][1] }

Mappings == UNION { [S -> SourceKeys] : S \in SUBSET MapNames }

Return(v) == [outcome |-> "return", ret |-> v]
Raise(e) == [outcome |-> e, ret |-> "None"]

\* the functions the class body defines: a name that is not in the instance
\* __dict__ is looked up on the class, where these are found
class_attributes == {K_get, K_keys, K_values, K_items, K_update}

BoundMethod == "<bound method>"

\* getattr(self, key)
getattr_(d, key) ==
    IF key \in DOMAIN d THEN Return(d[key])
    ELSE IF key \in class_attributes THEN Return(BoundMethod)
    ELSE Raise("AttributeError")

\* a faulty variant: the assignment is dropped when the key is already stored
setattr_keeps_old(d, key, v) ==
    IF key \in DOMAIN d THEN d
    ELSE [k \in DOMAIN d \cup {key} |-> IF k = key THEN v ELSE d[k]]

\* setattr(self, key, value): the instance __dict__ after it
setattr_(d, key, v) ==
    [k \in DOMAIN d \cup {key} |-> IF k = key THEN v ELSE d[k]]

getitem(d, key) == getattr_(d, key)

setitem(d, key, v) == setattr_(d, key, v)

len(d) == Cardinality(DOMAIN d)

contains(d, key) == key \in DOMAIN d

keys(d) == DOMAIN d

get(d, key, default) ==
    LET r == getitem(d, key)
    IN  IF r.outcome = "AttributeError" THEN Return(default) ELSE r

RECURSIVE setattr_all(_, _)
\* for key, value in entries.items(): setattr(self, key, value)
setattr_all(d, entries) ==
    IF DOMAIN entries = {} THEN d
    ELSE LET k == CHOOSE x \in DOMAIN entries : TRUE
             rest == [x \in DOMAIN entries \ {k} |-> entries[x]]
         IN  setattr_all(setattr_(d, k, entries[k]), rest)

\* a faulty variant: the keyword arguments are applied before the type is checked
update_kwargs_first(d, other, kw) ==
    IF other.given /\ other.type \notin {"dict", "ArgumentNamespace"}
    THEN [d |-> setattr_all(d, kw), outcome |-> "TypeError"]
    ELSE [d |-> setattr_all(IF other.given THEN setattr_all(d, other.entries) ELSE d, kw),
          outcome |-> "return"]

\* update(*args, **kwargs): the instance __dict__ after it, and the outcome
update(d, other, kw) ==
    IF other.given /\ other.type \notin {"dict", "ArgumentNamespace"}
    THEN [d |-> d, outcome |-> "TypeError"]
    ELSE [d |-> setattr_all(IF other.given THEN setattr_all(d, other.entries) ELSE d, kw),
          outcome |-> "return"]

\* source[key]
source_has(source, key) == \E i \in DOMAIN source : source[i][1] = key
source_get(source, key) ==
    source[CHOOSE i \in DOMAIN source : source[i][1] = key][2]

RECURSIVE auto_mapping_first_wins(_, _, _, _)
\* a faulty variant: a converted key that is already mapped keeps its first source key
auto_mapping_first_wins(source, suppress, i, mapping) ==
    IF i > Len(source) THEN mapping
    ELSE LET key == source[i][1]
             converted_key == rewrite_argument(key, suppress)
         IN  auto_mapping_first_wins(source, suppress, i + 1,
                 [k \in DOMAIN mapping \cup {converted_key} |->
                     IF k \in DOMAIN mapping THEN mapping[k] ELSE key])

RECURSIVE auto_mapping(_, _, _, _)
\* for key in source: mapping[rewrite_argument(key, suppress_new)] = key
auto_mapping(source, suppress, i, mapping) ==
    IF i > Len(source) THEN mapping
    ELSE LET key == source[i][1]
             converted_key == rewrite_argument(key, suppress)
         IN  auto_mapping(source, suppress, i + 1,
                 [k \in DOMAIN mapping \cup {converted_key} |->
                     IF k = converted_key THEN key ELSE mapping[k]])

\* __init__: the instance __dict__ it leaves, or the KeyError of source[source_key]
init(source, mapping, suppress) ==
    LET m == IF mapping.given THEN mapping.map
             ELSE auto_mapping(source, suppress, 1, EmptyDict)
    IN  IF \E name \in DOMAIN m : ~source_has(source, m[name])
        THEN [d |-> EmptyDict, outcome |-> "KeyError"]
        ELSE [d |-> [name \in DOMAIN m |-> source_get(source, m[name])],
              outcome |-> "return"]

NoCall == [op |-> "none", args |-> <<>>, outcome |-> "none", ret |-> "None"]

NoArg == [given |-> FALSE, type |-> "none", entries |-> EmptyDict]

UpdateArgs ==
    {NoArg}
    \cup [given : {TRUE}, type : {"dict", "ArgumentNamespace"},
          entries : DictsOver(UpdKeys, MaxUpd)]
    \cup [given : {TRUE}, type : {"int", "list"}, entries : {EmptyDict}]

MappingArgs ==
    {[given |-> FALSE, map |-> EmptyDict]} \cup [given : {TRUE}, map : Mappings]

\* ArgumentNamespace(source, mapping, suppress_new)
Construct ==
    /\ status = "unbuilt"
    /\ \E source \in Sources, mapping \in MappingArgs, suppress \in BOOLEAN :
         LET r == init(source, mapping, suppress)
         IN  /\ ns' = r.d
             /\ status' = IF r.outcome = "return" THEN "live" ELSE "failed"
             /\ last' = [op |-> "init",
                         args |-> [source |-> source, mapping |-> mapping,
                                   suppress_new |-> suppress],
                         outcome |-> r.outcome, ret |-> "None"]
    /\ written' = EmptyDict
    /\ UNCHANGED <<rwVars, fmtVars, wlanVars>>

\* adapter[key]
GetItem ==
    /\ status = "live"
    /\ \E key \in OpKeys :
         LET r == getitem(ns, key)
         IN  last' = [op |-> "getitem", args |-> [key |-> key],
                      outcome |-> r.outcome, ret |-> r.ret]
    /\ UNCHANGED <<ns, status, written, rwVars, fmtVars, wlanVars>>

\* adapter.key
GetAttr ==
    /\ status = "live"
    /\ \E key \in OpKeys :
         LET r == getattr_(ns, key)
         IN  last' = [op |-> "getattr", args |-> [key |-> key],
                      outcome |-> r.outcome, ret |-> r.ret]
    /\ UNCHANGED <<ns, status, written, rwVars, fmtVars, wlanVars>>

\* adapter.get(key, default)
Get ==
    /\ status = "live"
    /\ \E key \in OpKeys, default \in Defaults :
         LET r == get(ns, key, default)
         IN  last' = [op |-> "get", args |-> [key |-> key, default |-> default],
                      outcome |-> r.outcome, ret |-> r.ret]
    /\ UNCHANGED <<ns, status, written, rwVars, fmtVars, wlanVars>>

\* key in adapter
Contains ==
    /\ status = "live"
    /\ \E key \in OpKeys :
         last' = [op |-> "contains", args |-> [key |-> key],
                  outcome |-> "return", ret |-> contains(ns, key)]
    /\ UNCHANGED <<ns, status, written, rwVars, fmtVars, wlanVars>>

\* len(adapter)
Length ==
    /\ status = "live"
    /\ last' = [op |-> "len", args |-> <<>>, outcome |-> "return", ret |-> len(ns)]
    /\ UNCHANGED <<ns, status, written, rwVars, fmtVars, wlanVars>>

\* adapter.keys()
Keys ==
    /\ status = "live"
    /\ last' = [op |-> "keys", args |-> <<>>, outcome |-> "return", ret |-> keys(ns)]
    /\ UNCHANGED <<ns, status, written, rwVars, fmtVars, wlanVars>>

\* adapter[key] = value
SetItem ==
    /\ status = "live"
    /\ \E key \in OpKeys, v \in Values :
         /\ ns' = setitem(ns, key, v)
         /\ written' = [k \in DOMAIN written \cup {key} |->
                           IF k = key THEN v ELSE written[k]]
         /\ last' = [op |-> "setitem", args |-> [key |-> key, value |-> v],
                     outcome |-> "return", ret |-> "None"]
    /\ UNCHANGED <<status, rwVars, fmtVars, wlanVars>>

\* adapter.key = value
SetAttr ==
    /\ status = "live"
    /\ \E key \in OpKeys, v \in Values :
         /\ ns' = setattr_(ns, key, v)
         /\ written' = [k \in DOMAIN written \cup {key} |->
                           IF k = key THEN v ELSE written[k]]
         /\ last' = [op |-> "setattr", args |-> [key |-> key, value |-> v],
                     outcome |-> "return", ret |-> "None"]
    /\ UNCHANGED <<status, rwVars, fmtVars, wlanVars>>

\* adapter.update(other, **kw) and adapter.update(**kw)
Update ==
    /\ status = "live"
    /\ \E other \in UpdateArgs, kw \in DictsOver(KwKeys, Cardinality(KwKeys)) :
         LET r == update(ns, other, kw)
             given == [k \in DOMAIN other.entries \cup DOMAIN kw |->
                          IF k \in DOMAIN kw THEN kw[k] ELSE other.entries[k]]
         IN  /\ ns' = r.d
             /\ written' = IF r.outcome # "return" THEN written
                           ELSE [k \in DOMAIN written \cup DOMAIN given |->
                                    IF k \in DOMAIN given THEN given[k] ELSE written[k]]
             /\ last' = [op |-> "update", args |-> [other |-> other, kw |-> kw],
                         outcome |-> r.outcome, ret |-> "None"]
    /\ UNCHANGED <<status, rwVars, fmtVars, wlanVars>>

Next ==
    \/ Construct
    \/ GetItem
    \/ GetAttr
    \/ Get
    \/ Contains
    \/ Length
    \/ Keys
    \/ SetItem
    \/ SetAttr
    \/ Update

(***************************************************************************)
(* FritzWLAN and FritzGuestWLAN.                                           *)
(*                                                                         *)
(* fc.services is the set of numbers n for which 'WLANConfiguration<n>'    *)
(* is registered.  The device answers GetTotalAssociations for a service   *)
(* number with a host count, with FritzServiceError, or with some other    *)
(* error (an action, authorisation or transport error); numbers above      *)
(* MaxService get FritzServiceError.  Each loop iteration is one step.     *)
(***************************************************************************)
DefaultService == 1

HostCounts == {1, 2}

Responses ==
    [kind : {"ok"}, hosts : HostCounts]
    \cup [kind : {"FritzServiceError", "OtherError"}, hosts : {0}]

\* self.fc.call_action(f'{SERVICE}{self.service}', 'GetTotalAssociations')
call_action(rem, number) ==
    IF number \in DOMAIN rem THEN rem[number]
    ELSE [kind |-> "FritzServiceError", hosts |-> 0]

\* host_number: the answer's 'NewTotalAssociations', or the error raised
host_number(rem, number) == call_action(rem, number)

\* FritzWLAN(fc, service=s)
WlanConstruct ==
    /\ wpc = "start"
    /\ \E s \in 1..MaxService : service' = s
    /\ wpc' = "constructed"
    /\ UNCHANGED <<fc_services, remote, loop_n, total, saved_service, returned_total>>
    /\ UNCHANGED <<rwVars, fmtVars, nsVars>>

\* FritzGuestWLAN(fc): super().__init__() and the entry into the loop
GuestConstruct ==
    /\ wpc = "start"
    /\ service' = DefaultService
    /\ loop_n' = 1
    /\ wpc' = "guest_loop"
    /\ UNCHANGED <<fc_services, remote, total, saved_service, returned_total>>
    /\ UNCHANGED <<rwVars, fmtVars, nsVars>>

\* self.service = n - 1
guest_service(number) == number - 1

\* one iteration of `for n in itertools.count(1)` in FritzGuestWLAN.__init__
GuestProbe ==
    /\ wpc = "guest_loop"
    /\ IF loop_n \notin fc_services   \* self.fc.services.get(...) is None
       THEN /\ service' = guest_service(loop_n)
            /\ wpc' = "guest_constructed"
            /\ UNCHANGED loop_n
       ELSE /\ loop_n' = loop_n + 1
            /\ UNCHANGED <<service, wpc>>
    /\ UNCHANGED <<fc_services, remote, total, saved_service, returned_total>>
    /\ UNCHANGED <<rwVars, fmtVars, nsVars>>

\* total_host_number: total = 0; _service = self.service
TotalStart ==
    /\ wpc \in {"constructed", "guest_constructed", "returned", "raised"}
    /\ total' = 0
    /\ saved_service' = service
    /\ loop_n' = 1
    /\ wpc' = "total_loop"
    /\ UNCHANGED <<fc_services, remote, service, returned_total>>
    /\ UNCHANGED <<rwVars, fmtVars, nsVars>>

\* one iteration of `for service in itertools.count(1)` in total_host_number
TotalStep ==
    /\ wpc = "total_loop"
    /\ service' = loop_n
    /\ LET r == host_number(remote, loop_n)
       IN  CASE r.kind = "ok" ->
                  /\ total' = total + r.hosts
                  /\ loop_n' = loop_n + 1
                  /\ UNCHANGED wpc
             [] r.kind = "FritzServiceError" ->   \* break
                  /\ wpc' = "total_break"
                  /\ UNCHANGED <<total, loop_n>>
             [] OTHER ->                          \* the error leaves the property
                  /\ wpc' = "raised"
                  /\ UNCHANGED <<total, loop_n>>
    /\ UNCHANGED <<fc_services, remote, saved_service, returned_total>>
    /\ UNCHANGED <<rwVars, fmtVars, nsVars>>

\* total_host_number: self.service = _service; return total
TotalReturn ==
    /\ wpc = "total_break"
    /\ service' = saved_service
    /\ returned_total' = total
    /\ wpc' = "returned"
    /\ UNCHANGED <<fc_services, remote, loop_n, total, saved_service>>
    /\ UNCHANGED <<rwVars, fmtVars, nsVars>>

WlanNext ==
    \/ WlanConstruct
    \/ GuestConstruct
    \/ GuestProbe
    \/ TotalStart
    \/ TotalStep
    \/ TotalReturn

\* no adapter is constructed yet
Init ==
    /\ arg = <<>>
    /\ rw_suppress = TRUE
    /\ res = <<>>
    /\ n = 0
    /\ value = [neg |-> FALSE, limbs |-> <<>>]
    /\ fmt = FormatIdleResult
    /\ ns = EmptyDict
    /\ status = "unbuilt"
    /\ last = NoCall
    /\ written = EmptyDict
    /\ fc_services = {}
    /\ remote = <<>>
    /\ service = DefaultService
    /\ wpc = "idle"
    /\ loop_n = 0
    /\ total = 0
    /\ saved_service = 0
    /\ returned_total = 0

\* a name and a suppress_new setting are drawn
RewriteInit ==
    /\ arg \in Names
    /\ rw_suppress \in BOOLEAN
    /\ res = <<>>
    /\ n = 0
    /\ value = [neg |-> FALSE, limbs |-> <<>>]
    /\ fmt = FormatIdleResult
    /\ ns = EmptyDict
    /\ status = "unbuilt"
    /\ last = NoCall
    /\ written = EmptyDict
    /\ fc_services = {}
    /\ remote = <<>>
    /\ service = DefaultService
    /\ wpc = "idle"
    /\ loop_n = 0
    /\ total = 0
    /\ saved_service = 0
    /\ returned_total = 0

\* an integer is drawn
FormatInit ==
    /\ arg = <<>>
    /\ rw_suppress = TRUE
    /\ res = <<>>
    /\ n = 0
    /\ value \in [neg : BOOLEAN, limbs : Magnitudes]
    /\ fmt = FormatIdleResult
    /\ ns = EmptyDict
    /\ status = "unbuilt"
    /\ last = NoCall
    /\ written = EmptyDict
    /\ fc_services = {}
    /\ remote = <<>>
    /\ service = DefaultService
    /\ wpc = "idle"
    /\ loop_n = 0
    /\ total = 0
    /\ saved_service = 0
    /\ returned_total = 0

\* a connection with its registered services and a device are drawn
WlanInit ==
    /\ arg = <<>>
    /\ rw_suppress = TRUE
    /\ res = <<>>
    /\ n = 0
    /\ value = [neg |-> FALSE, limbs |-> <<>>]
    /\ fmt = FormatIdleResult
    /\ ns = EmptyDict
    /\ status = "unbuilt"
    /\ last = NoCall
    /\ written = EmptyDict
    /\ fc_services \in SUBSET (1..MaxService)
    /\ remote \in [1..MaxService -> Responses]
    /\ service = DefaultService
    /\ wpc = "start"
    /\ loop_n = 0
    /\ total = 0
    /\ saved_service = 0
    /\ returned_total = 0

Spec == Init /\ [][Next]_vars

SpecRewrite == RewriteInit /\ [][RewriteNext]_vars

SpecFormat == FormatInit /\ [][FormatNext]_vars

SpecWlan == WlanInit /\ [][WlanNext]_vars

(***************************************************************************)
(* The claims.                                                             *)
(***************************************************************************)
Override(d, e) ==
    [k \in DOMAIN d \cup DOMAIN e |-> IF k \in DOMAIN e THEN e[k] ELSE d[k]]

\* C1: building from a source and an explicit mapping never fails on a mapping
\* entry whose original key is absent from source; such entries are skipped,
\* the adapter's keys are exactly the mapped names whose original key is in
\* source, and len(adapter) is their number.
C1_MissingOriginalSkipped ==
    (last.op = "init" /\ last.args.mapping.given) =>
        LET source == last.args.source
            m == last.args.mapping.map
            mapped == { name \in DOMAIN m : source_has(source, m[name]) }
        IN  /\ last.outcome = "return"
            /\ status = "live"
            /\ keys(ns) = mapped
            /\ len(ns) = Cardinality(mapped)

\* C2: rewrite_argument is idempotent under a fixed suppress_new: applied to
\* its own result it returns that result.
C2_Idempotent ==
    n >= 2 => res = arg

\* C3: for a key with `key in adapter` false, get(key, default) does not raise
\* and returns the caller's default, also when the key names a method.
C3_GetReturnsDefault ==
    (last.op = "get" /\ ~contains(ns, last.args.key)) =>
        /\ last.outcome = "return"
        /\ last.ret = last.args.default

\* C4: for a key that is not stored, adapter[key] and adapter.key both fail
\* with a missing-key error instead of returning a value.
C4_MissingKeyFails ==
    (last.op \in {"getitem", "getattr"} /\ ~contains(ns, last.args.key)) =>
        last.outcome \in {"AttributeError", "KeyError"}

C7_ScaleMagnitude ==
    fmt.called =>
        LET limbs == value.limbs
            k == Min(Len(limbs) - 1, 5)   \* floor(log_1000 |value|) is Len(limbs) - 1
        IN  IF limbs = <<>>
            THEN fmt.num.mant = <<>> /\ fmt.dimension = "B"
            ELSE /\ fmt.num = [mant |-> limbs, exp |-> k]
                 /\ fmt.dimension = <<"B", "KB", "MB", "GB", "TB", "PB">>[k + 1]
                 /\ Len(limbs) <= 6 => Len(fmt.num.mant) = fmt.num.exp + 1

LooksNormalized(name) ==
    /\ \E i \in DOMAIN name : name[i] = "_"
    /\ \A i \in DOMAIN name : ~isupper(name[i])

\* C8: a name that already looks normalized (it has an underscore and no
\* uppercase letter) is returned unchanged, for either suppress_new setting.
C8_NormalizedUnchanged ==
    (n >= 1 /\ LooksNormalized(arg)) => res = arg

\* C9: built without a mapping from a source in which several keys normalize
\* to the same key, the adapter is constructed, holds each normalized key once,
\* and its value is that of the last such source key in iteration order.
C9_LastWriteWins ==
    (last.op = "init" /\ ~last.args.mapping.given) =>
        LET source == last.args.source
            norm(i) == rewrite_argument(source[i][1], last.args.suppress_new)
            normalized == { norm(i) : i \in DOMAIN source }
        IN  /\ last.outcome = "return"
            /\ status = "live"
            /\ keys(ns) = normalized
            /\ len(ns) = Cardinality(normalized)
            /\ \A i \in DOMAIN source :
                 (\A j \in DOMAIN source : j > i => norm(j) # norm(i))
                     => ns[norm(i)] = source[i][2]

\* C9's case: two source keys with different values normalized to one key.
C9_Witness ==
    /\ last.op = "init"
    /\ ~last.args.mapping.given
    /\ status = "live"
    /\ \E i, j \in DOMAIN last.args.source :
         /\ i < j
         /\ rewrite_argument(last.args.source[i][1], last.args.suppress_new)
              = rewrite_argument(last.args.source[j][1], last.args.suppress_new)
         /\ last.args.source[i][2] # last.args.source[j][2]

RECURSIVE Letters(_)
\* s without its underscores, in lower case
Letters(s) ==
    IF s = <<>> THEN <<>>
    ELSE (IF Head(s) = "_" THEN <<>> ELSE <<lower(Head(s))>>) \o Letters(Tail(s))

\* out has an underscore between the images of name[i - 1] and name[i]
UnderscoreBetween(out, name, i) ==
    \E p \in DOMAIN out :
        /\ out[p] = "_"
        /\ Letters(SubSeq(out, 1, p - 1)) = Letters(SubSeq(name, 1, i - 1))
        /\ Letters(SubSeq(out, p + 1, Len(out))) = Letters(SubSeq(name, i, Len(name)))

\* the positions the claim gives a boundary to
ClaimedBoundary(name, i) ==
    /\ i > 1
    /\ isupper(name[i])
    /\ \/ i < Len(name) /\ islower(name[i + 1])
       \/ islower(name[i - 1]) \/ isdigit(name[i - 1])

\* C10: rewrite_argument puts an underscore before every uppercase letter that
\* is followed by lowercase letters and preceded by any character (a run of
\* capitals before a capitalized word is split at its last capital), and
\* between a lowercase letter or digit and a following uppercase letter, and
\* lowercases the whole string.
C10_SplitsAtLastCapital ==
    (n = 1 /\ ~rw_suppress) =>
        /\ \A i \in DOMAIN arg : ClaimedBoundary(arg, i) => UnderscoreBetween(res, arg, i)
        /\ \A p \in DOMAIN res : ~isupper(res[p])


SetMax(S) == CHOOSE x \in S : \A y \in S : y <= x

\* C11: after constructing a FritzGuestWLAN, whatever services are registered
\* on the connection, service is the highest n for which
\* 'WLANConfiguration<n>' is registered.
C11_HighestRegistered ==
    (wpc = "guest_constructed" /\ fc_services # {}) =>
        service = SetMax(fc_services)

\* the first service number whose call raises FritzServiceError
FirstServiceError ==
    CHOOSE k \in 1..(MaxService + 1) :
        /\ call_action(remote, k).kind = "FritzServiceError"
        /\ \A j \in 1..(k - 1) : call_action(remote, j).kind # "FritzServiceError"

RECURSIVE SumHosts(_)
\* the sum of host_number over the services 1..m
SumHosts(m) ==
    IF m = 0 THEN 0 ELSE call_action(remote, m).hosts + SumHosts(m - 1)

\* C12: every access of total_host_number leaves self.service as it was before
\* the access, whether it returns or a remote call raises an error other than
\* FritzServiceError; on return the result is the sum of host_number over the
\* services 1..m, m + 1 being the first number that raises FritzServiceError.
C12_ServiceRestored ==
    /\ wpc \in {"returned", "raised"} => service = saved_service
    /\ wpc = "returned" => returned_total = SumHosts(FirstServiceError - 1)

====
